---- MODULE Spec2Model ----
\* Memory matching game: the Flask session state machine of src/routes/game.py
\* together with the on-disk image catalog and derivative cache it reads and
\* writes through src/crop_service.py.
EXTENDS Integers, Sequences, FiniteSets, TLC

\* ------------------------------------------------------------------ bounds
\* Number of distinct base filenames that may lie in img/.
NumImages == 2
\* Number of distinct base filenames the derivative cache is modelled for
\* (the catalogs of SpecFiles are drawn from them).
NumFiles == 4
\* Largest width and height of the pictures SpecSquare draws.
MaxDim == 8
\* Number of distinct well-formed crop boxes a caller may submit.
NumBoxes == 1
\* Number of pairs that may be credited within one session before no further
\* matching check is explored.
MaxMatches == 2

\* ------------------------------------------------------- program constants
BOARD_WIDTH == 2
BOARD_HEIGHT == 2

\* k = (BOARD_WIDTH * BOARD_HEIGHT) // 2
TOTAL_PAIRS == (BOARD_WIDTH * BOARD_HEIGHT) \div 2

\* ------------------------------------------------------------ environment
\* Base filenames are numbered; Spec draws its catalog from Images, SpecFiles
\* from Files.
Images == 1..NumImages
Files == 1..NumFiles

\* Request values that are not the name of a file of img/:
\* a missing/empty filename, and a name whose resolved parent is not img/.
NoFilename == 0
UnsafeFilename == -1
FilenameInputs == Images \cup {NoFilename, UnsafeFilename}

\* crop_box request values: absent/empty, a dict lacking x/y/size, or a box.
NoBox == 0
BadBox == -1
CropBoxes == 1..NumBoxes
CropBoxInputs == {NoBox, BadBox} \cup CropBoxes

\* Content of a derivative file in img/squared/: no file, a copy of the
\* (square) original, or the original cropped to a box.
NoFile == 0
CopyContent == -1
DerivativeContents == {NoFile, CopyContent} \cup CropBoxes

\* Card positions a caller may send (one below and one past a full board).
CardInputs == -1..(2 * TOTAL_PAIRS)

VARIABLES
    img_dir,   \* set of base image files present in img/
    squared,   \* img/squared/: base filename -> content of its derivative
    session,   \* the Flask session of the one browser modelled
    resp       \* the response of the last request

vars == <<img_dir, squared, session, resp>>

\* ---------------------------------------------------------------- helpers
Range(s) == {s[i] : i \in 1..Len(s)}

\* Python list indexing with an int (negative indices count from the end).
PyIndex(s, i) == IF i >= 0 THEN s[i + 1] ELSE s[Len(s) + i + 1]

\* Variant: the head of the list is dropped, whatever x is (list.pop(0)).
ListRemoveHead(s, x) == IF s = <<>> THEN <<>> ELSE Tail(s)

\* list.remove(x): drops the first occurrence of x.
RECURSIVE ListRemove(_, _)
ListRemove(s, x) ==
    IF s = <<>> THEN <<>>
    ELSE IF Head(s) = x THEN Tail(s)
    ELSE <<Head(s)>> \o ListRemove(Tail(s), x)

\* All orderings without repetition of n elements of S
\* (the possible results of random.sample(files, n) / of a directory listing).
RECURSIVE Samples(_, _)
Samples(S, n) ==
    IF n = 0 THEN {<<>>}
    ELSE UNION {{<<x>> \o t : t \in Samples(S \ {x}, n - 1)} : x \in S}

\* Pixel dimensions after EXIF rotation; None (<<>>) when the file cannot be
\* opened.  Files 1, 5, .. are 3x2, files 2, 6, .. and 4, 8, .. are 2x2, files
\* 3, 7, .. are corrupt.
None == <<>>
get_image_dimensions(filename) ==
    IF filename \notin img_dir THEN None
    ELSE IF filename % 4 = 3 THEN None
    ELSE IF filename % 4 = 1 THEN [width |-> 3, height |-> 2]
    ELSE [width |-> 2, height |-> 2]

\* img.save(square_path, 'JPEG') succeeds: files 4, 8, .. are pictures with an
\* alpha channel or a palette (PNG, GIF), whose mode Pillow refuses to write
\* as JPEG.
SavesAsJpeg(filename) == filename % 4 # 0

is_square_image(filename) ==
    LET dims == get_image_dimensions(filename)
    IN  IF dims = None THEN FALSE ELSE dims.width = dims.height

\* get_safe_image_path(filename) is not None
get_safe_image_path(filename) == filename \in img_dir

has_cropped_version(cache, base_filename) ==
    base_filename \in Files /\ cache[base_filename] # NoFile

\* ----------------------------------------------------------- session dict
\* A cleared session has no keys; session.get(key, default) then yields the
\* defaults held here.
EmptySession ==
    [present |-> FALSE,
     all_game_images |-> <<>>,
     pending_crops |-> <<>>,
     cards |-> <<>>,
     matched |-> <<>>,
     current_player |-> 1,
     player1_matches |-> <<>>,
     player2_matches |-> <<>>]

\* Variant: the whole listing is returned, nothing is sampled.
get_k_random_images_all(k) == Samples(img_dir, Cardinality(img_dir))

\* _get_k_random_images(k): the possible selections.
get_k_random_images(k) ==
    IF Cardinality(img_dir) <= k
    THEN Samples(img_dir, Cardinality(img_dir))
    ELSE Samples(img_dir, k)

\* copy_square_image(filename) returns a filename (not None): the path is
\* safe and the picture, when it is no JPEG file, is written as one.
copy_square_image(filename) ==
    /\ get_safe_image_path(filename)
    /\ SavesAsJpeg(filename)

\* The derivative cache after the loop of init_game_state over selected_base:
\* a square image lacking a derivative is copied into squared/, and the loop
\* goes on whether or not the copy was made.
CacheAfterInit(cache, selected_base) ==
    [f \in Files |->
        IF /\ f \in Range(selected_base)
           /\ ~has_cropped_version(cache, f)
           /\ is_square_image(f)
           /\ copy_square_image(f)
        THEN CopyContent
        ELSE cache[f]]

\* The session written by init_game_state for the selection selected_base.
init_game_state(cache, selected_base) ==
    [present |-> TRUE,
     all_game_images |-> selected_base,
     pending_crops |->
        SelectSeq(selected_base,
                  LAMBDA f : ~has_cropped_version(cache, f) /\ ~is_square_image(f)),
     cards |-> <<>>,
     matched |-> <<>>,
     current_player |-> 1,
     player1_matches |-> <<>>,
     player2_matches |-> <<>>]

\* Variant: list(range(n * 2)), every value once.
PairsDistinct(n) == [i \in 1..(2 * n) |-> i - 1]

\* list(range(n)) * 2
Pairs(n) == [i \in 1..(2 * n) |-> (i - 1) % n]

\* The possible results of random.shuffle(pairs).
ShuffleResults(s) ==
    {[i \in 1..Len(s) |-> s[p[i]]] :
        p \in {q \in [1..Len(s) -> 1..Len(s)] : \A i, j \in 1..Len(s) : q[i] = q[j] => i = j}}

Shuffles(n) == ShuffleResults(Pairs(n))

\* setup_card_pairs with the shuffle result deal.
setup_card_pairs(s, deal) ==
    [s EXCEPT !.present = TRUE, !.cards = deal, !.matched = <<>>]

\* ------------------------------------------------------------- responses
\* The last response: the route that answered, its 'status' or 'error' string
\* ("exception" stands for an unhandled exception), the fields of its JSON
\* body, whether the request ran init_game_state (sampled), the path of the
\* file read or sent in answer (served), and the result of a largest-square
\* computation (square).
Response(op, status) ==
    [op |-> op, status |-> status,
     is_match |-> FALSE, game_over |-> FALSE,
     image1 |-> 0, image2 |-> 0,
     next_image |-> 0, total |-> 0,
     sampled |-> FALSE,
     served |-> None, square |-> None]

Init ==
    /\ img_dir \in SUBSET Images
    /\ squared = [f \in Files |-> NoFile]
    /\ session = EmptySession
    /\ resp = Response("start", "ok")

\* ---------------------------------------------------------------- routes
\* 'cards' not in session
NeedsPageInit == ~session.present

\* Variant: no request initialises a missing session.
NeedsFreshStartNever == FALSE

\* Variant: every init or board fetch resamples.
NeedsFreshStartAlways == TRUE

\* 'all_game_images' not in session
NeedsFreshStart == ~session.present

\* The selections init_game_state may draw when it runs (fresh), and the one
\* already in the session when it does not.
Selections(fresh) ==
    IF fresh THEN get_k_random_images(TOTAL_PAIRS) ELSE {session.all_game_images}

\* GET /
index ==
    /\ \E selected_base \in Selections(NeedsPageInit) :
        IF NeedsPageInit
        THEN /\ session' = init_game_state(squared, selected_base)
             /\ squared' = CacheAfterInit(squared, selected_base)
        ELSE UNCHANGED <<session, squared>>
    /\ resp' = [Response("index", "ok") EXCEPT !.sampled = NeedsPageInit]
    /\ UNCHANGED img_dir

\* save_cropped_image(filename, crop_box) returns a filename (not None):
\* the path is safe, the image opens, the box has x, y and size, and the
\* cropped picture is written as JPEG.
save_cropped_image(filename, crop_box) ==
    /\ get_safe_image_path(filename)
    /\ get_image_dimensions(filename) # None
    /\ crop_box \in CropBoxes
    /\ SavesAsJpeg(filename)

\* An error return of save_crop: jsonify({'error': ...}), 4xx.
RejectCrop(error) ==
    /\ resp' = Response("save_crop", error)
    /\ UNCHANGED <<session, squared>>

\* POST /api/image/crop
save_crop(filename, crop_box) ==
    /\ UNCHANGED img_dir
    /\ IF filename = NoFilename \/ crop_box = NoBox
       THEN RejectCrop("Missing data")
       ELSE IF ~get_safe_image_path(filename)
       THEN RejectCrop("Image not found")
       ELSE IF ~save_cropped_image(filename, crop_box)
       THEN RejectCrop("Crop failed")
       ELSE
         \* the derivative has been written by save_cropped_image
         /\ squared' = [squared EXCEPT ![filename] = crop_box]
         /\ IF ~session.present \/ filename \notin Range(session.pending_crops)
            THEN \* session['pending_crops'] raises KeyError, or
                 \* list.remove raises ValueError: the request ends in an
                 \* unhandled exception
                 /\ resp' = Response("save_crop", "exception")
                 /\ UNCHANGED session
            ELSE
              LET pending == ListRemove(session.pending_crops, filename)
                  s1 == [session EXCEPT !.pending_crops = pending]
              IN  IF pending # <<>>
                  THEN /\ session' = s1
                       /\ resp' = [Response("save_crop", "pending_crops")
                                      EXCEPT !.next_image = pending[1]]
                  ELSE \E deal \in Shuffles(Len(s1.all_game_images)) :
                       /\ session' = setup_card_pairs(s1, deal)
                       /\ resp' = Response("save_crop", "ok")

\* Variant: the turn is not given back to player 1.
reset_round_state_keep_turn(s) ==
    [s EXCEPT !.matched = <<>>,
              !.player1_matches = <<>>,
              !.player2_matches = <<>>,
              !.cards = <<>>]

\* init's reset of the play state of a live session; the selection and the
\* pending crops are kept.
reset_round_state(s) ==
    [s EXCEPT !.matched = <<>>,
              !.current_player = 1,
              !.player1_matches = <<>>,
              !.player2_matches = <<>>,
              !.cards = <<>>]

\* POST /api/game/init
init ==
    /\ UNCHANGED img_dir
    /\ \E selected_base \in Selections(NeedsFreshStart) :
       LET fresh == NeedsFreshStart
           s1 == IF fresh
                 THEN init_game_state(squared, selected_base)
                 ELSE reset_round_state(session)
           pending == s1.pending_crops
       IN  /\ squared' = IF fresh THEN CacheAfterInit(squared, selected_base) ELSE squared
           /\ IF pending # <<>>
              THEN /\ session' = s1
                   /\ resp' = [Response("init", "pending_crops")
                                  EXCEPT !.next_image = pending[1],
                                         !.total = Len(pending),
                                         !.sampled = fresh]
              ELSE \E deal \in Shuffles(Len(s1.all_game_images)) :
                   /\ session' = setup_card_pairs(s1, deal)
                   /\ resp' = [Response("init", "ok")
                                  EXCEPT !.total = Len(s1.all_game_images),
                                         !.sampled = fresh]

\* GET /api/game/board
get_board ==
    /\ UNCHANGED img_dir
    /\ \E selected_base \in Selections(NeedsFreshStart) :
       LET fresh == NeedsFreshStart
           s1 == IF fresh THEN init_game_state(squared, selected_base) ELSE session
       IN  /\ squared' = IF fresh THEN CacheAfterInit(squared, selected_base) ELSE squared
           /\ \E deal \in (IF s1.cards = <<>>
                           THEN Shuffles(Len(s1.all_game_images))
                           ELSE {s1.cards}) :
              LET s2 == IF s1.cards = <<>> THEN setup_card_pairs(s1, deal) ELSE s1
              IN  /\ session' = s2
                  /\ resp' = [Response("get_board",
                                        IF s2.all_game_images = <<>>
                                        THEN "No images in session"
                                        ELSE IF s2.cards = <<>>
                                        THEN "No cards in session"
                                        ELSE "ok")
                                  EXCEPT !.sampled = fresh]

\* The name of base_filename's derivative, 'squared/<stem>_square.jpg'; base
\* filenames are below 100.
SquaredName(base_filename) == 100 + base_filename

\* _get_display_filename(base_filename)
get_display_filename(cache, base_filename) ==
    IF has_cropped_version(cache, base_filename)
    THEN SquaredName(base_filename)
    ELSE base_filename

\* Variant: the display filename of the image at that index is returned.
get_card_image_display(s, card_value) ==
    IF 0 <= card_value /\ card_value < Len(s.all_game_images)
    THEN get_display_filename(squared, s.all_game_images[card_value + 1])
    ELSE 0

\* get_card_image(card_value): the filename at that index, or None
get_card_image(s, card_value) ==
    IF 0 <= card_value /\ card_value < Len(s.all_game_images)
    THEN s.all_game_images[card_value + 1]
    ELSE 0

\* card1 >= len(cards) or card2 >= len(cards) or card1 < 0 or card2 < 0
InvalidIndex(card1, card2, cards) ==
    card1 >= Len(cards) \/ card2 >= Len(cards) \/ card1 < 0 \/ card2 < 0

\* Variant: only the first position is looked up in matched.
AlreadyMatchedFirst(card1, card2, matched) == card1 \in Range(matched)

\* card1 in matched or card2 in matched
AlreadyMatched(card1, card2, matched) ==
    card1 \in Range(matched) \/ card2 \in Range(matched)

\* Variant: the turn never passes.
SwitchPlayerStuck(current_player) == current_player

\* 2 if current_player == 1 else 1
SwitchPlayer(current_player) == IF current_player = 1 THEN 2 ELSE 1

\* Variant: the turn passes before the request is rejected.
RejectCheckSwitching(error) ==
    /\ resp' = Response("check_match", error)
    /\ session' = [session EXCEPT !.current_player = 3 - @]

\* An error return of check_match: jsonify({'error': ...}), 400.
RejectCheck(error) ==
    /\ resp' = Response("check_match", error)
    /\ UNCHANGED session

\* POST /api/game/check/<card1>/<card2>
check_match(card1, card2) ==
    /\ UNCHANGED <<img_dir, squared>>
    /\ IF InvalidIndex(card1, card2, session.cards)
       THEN RejectCheck("Invalid card index")
       ELSE IF AlreadyMatched(card1, card2, session.matched)
       THEN RejectCheck("Card already matched")
       ELSE
         LET card1_val == PyIndex(session.cards, card1)
             card2_val == PyIndex(session.cards, card2)
             is_match == card1_val = card2_val
             matched == IF is_match
                        THEN session.matched \o <<card1, card2>>
                        ELSE session.matched
             player1_matches ==
                 IF is_match /\ session.current_player = 1
                 THEN Append(session.player1_matches, card1_val)
                 ELSE session.player1_matches
             player2_matches ==
                 IF is_match /\ session.current_player # 1
                 THEN Append(session.player2_matches, card1_val)
                 ELSE session.player2_matches
             current_player ==
                 IF is_match THEN session.current_player
                 ELSE SwitchPlayer(session.current_player)
             game_over == IF is_match
                          THEN Len(matched) = Len(session.cards)
                          ELSE FALSE
         IN  \* exploration bound on the pairs credited in one session
             /\ Len(player1_matches) + Len(player2_matches) <= MaxMatches
             /\ session' = [session EXCEPT !.matched = matched,
                                           !.current_player = current_player,
                                           !.player1_matches = player1_matches,
                                           !.player2_matches = player2_matches]
             /\ resp' = [Response("check_match", "ok")
                            EXCEPT !.is_match = is_match,
                                   !.game_over = game_over,
                                   !.image1 = get_card_image(session, card1_val),
                                   !.image2 = get_card_image(session, card2_val)]

\* Variant: only the play state is cleared, the selection is kept.
reset_play_only ==
    /\ session' = [session EXCEPT !.cards = <<>>, !.matched = <<>>,
                                  !.current_player = 1,
                                  !.player1_matches = <<>>,
                                  !.player2_matches = <<>>]
    /\ resp' = Response("reset", "ok")
    /\ UNCHANGED <<img_dir, squared>>

\* POST /api/game/reset
reset ==
    /\ session' = EmptySession
    /\ resp' = Response("reset", "ok")
    /\ UNCHANGED <<img_dir, squared>>

Next ==
    \/ index
    \/ init
    \/ get_board
    \/ \E filename \in FilenameInputs, crop_box \in CropBoxInputs : save_crop(filename, crop_box)
    \/ \E card1, card2 \in CardInputs : check_match(card1, card2)
    \/ reset

Spec == Init /\ [][Next]_vars

\* ---- SpecFiles: the selection and crop phase over a larger catalog ----

\* The catalog is any set of Files: with 1 non-square, 2 and 4 square and 3
\* unreadable, a selection can hold two images that wait for a crop.
FilesInit ==
    /\ img_dir \in SUBSET Files
    /\ squared = [f \in Files |-> NoFile]
    /\ session = EmptySession
    /\ resp = Response("start", "ok")

\* The filenames a crop submission may carry in SpecFiles.
FilesFilenameInputs == Files \cup {NoFilename, UnsafeFilename}

\* The requests of the selection and crop phase; no card is flipped.
FilesNext ==
    \/ index
    \/ init
    \/ get_board
    \/ \E filename \in FilesFilenameInputs, crop_box \in CropBoxInputs :
          save_crop(filename, crop_box)
    \/ reset

SpecFiles == FilesInit /\ [][FilesNext]_vars

\* ---- SpecPaths: the image-facing requests, by resolved path ----

\* A directory is the sequence of characters of its resolved posix path.
\* img_dir.resolve()
ImgRoot == <<"/", "i">>
\* img_dir / 'squared'
SquaredDir == <<"/", "i", "/", "s">>
\* a sibling of img whose name starts with img's name, reached by '../i2/'
SiblingDir == <<"/", "i", "2">>
\* a directory elsewhere on the disk, reached by '../e/'
OtherDir == <<"/", "e">>
Dirs == {ImgRoot, SquaredDir, SiblingDir, OtherDir}

\* A requested path, by the parent directory it resolves to and its name;
\* under SquaredDir the name n stands for n's derivative n_square.jpg.
PathInputs == [dir : Dirs, name : Images]

\* str.startswith
StartsWith(s, prefix) ==
    Len(s) >= Len(prefix) /\ SubSeq(s, 1, Len(prefix)) = prefix

\* Path.exists(): files of img/ are the catalog, files of img/squared are the
\* derivatives, and every name exists in the two directories outside img/.
Exists(p) ==
    IF p.dir = ImgRoot THEN p.name \in img_dir
    ELSE IF p.dir = SquaredDir THEN squared[p.name] # NoFile
    ELSE TRUE

\* get_safe_image_path's parent test, file_path.resolve().parent !=
\* img_dir.resolve(): a path outside img/ is the unsafe filename.
Filename(p) == IF p.dir = ImgRoot THEN p.name ELSE UnsafeFilename

\* GET /crop/<filename>
crop_tool(p) ==
    /\ UNCHANGED <<img_dir, squared, session>>
    /\ resp' = IF ~get_safe_image_path(Filename(p))
               THEN Response("crop_tool", "Image not found")
               ELSE Response("crop_tool", "ok")

\* GET /api/image/<filename>/dimensions
get_image_dimensions_api(p) ==
    /\ UNCHANGED <<img_dir, squared, session>>
    /\ resp' = IF ~get_safe_image_path(Filename(p))
               THEN Response("dimensions", "Image not found")
               ELSE IF get_image_dimensions(Filename(p)) = None
               THEN Response("dimensions", "Cannot read image")
               ELSE [Response("dimensions", "ok") EXCEPT !.served = p]

\* POST /api/crop/save with the filename given as a path
save_crop_path(p, crop_box) == save_crop(Filename(p), crop_box)

\* GET /img/<path:filepath>
serve_image(p) ==
    /\ UNCHANGED <<img_dir, squared, session>>
    /\ LET cropped_path == [dir |-> SquaredDir, name |-> p.name]
       IN  IF p.dir = ImgRoot /\ Exists(cropped_path)
           THEN IF ~StartsWith(cropped_path.dir, ImgRoot)
                THEN resp' = Response("serve_image", "Invalid path")
                ELSE resp' = [Response("serve_image", "ok")
                                 EXCEPT !.served = cropped_path]
           ELSE IF ~StartsWith(p.dir, ImgRoot)
           THEN resp' = Response("serve_image", "Invalid path")
           ELSE IF ~Exists(p)
           THEN resp' = Response("serve_image", "Image not found")
           ELSE resp' = [Response("serve_image", "ok") EXCEPT !.served = p]

\* The image-facing requests, with the page load and the reset that create
\* and drop the session they act on.
PathsNext ==
    \/ index
    \/ \E p \in PathInputs : crop_tool(p)
    \/ \E p \in PathInputs : get_image_dimensions_api(p)
    \/ \E p \in PathInputs, crop_box \in CropBoxInputs : save_crop_path(p, crop_box)
    \/ \E p \in PathInputs : serve_image(p)
    \/ reset

\* ---- SpecSquare: the largest centred square of a picture ----

\* The widths and heights of the pictures SpecSquare draws.
Dimensions == 1..MaxDim

\* Variant: the longer side is taken for the square.
get_largest_square_dimensions_max(dims) ==
    IF dims = None THEN None
    ELSE LET size == IF dims.width >= dims.height THEN dims.width ELSE dims.height
         IN  [x |-> (dims.width - size) \div 2,
              y |-> (dims.height - size) \div 2,
              size |-> size]

\* get_largest_square_dimensions, given what get_image_dimensions returned
get_largest_square_dimensions(dims) ==
    IF dims = None THEN None
    ELSE LET size == IF dims.width <= dims.height THEN dims.width ELSE dims.height
         IN  [x |-> (dims.width - size) \div 2,
              y |-> (dims.height - size) \div 2,
              size |-> size]

\* A picture of any width and height is at hand.
SquareInit ==
    /\ img_dir = {}
    /\ squared = [f \in Files |-> NoFile]
    /\ session = EmptySession
    /\ \E width, height \in Dimensions :
          resp = [Response("start", "ok")
                     EXCEPT !.square = [width |-> width, height |-> height]]

\* The function is applied to the picture's dimensions.
largest_square ==
    /\ resp.op = "start"
    /\ LET dims == resp.square
           box == get_largest_square_dimensions(dims)
       IN  resp' = [Response("largest_square", "ok")
                       EXCEPT !.square = [width |-> dims.width,
                                          height |-> dims.height,
                                          x |-> box.x,
                                          y |-> box.y,
                                          size |-> box.size]]
    /\ UNCHANGED <<img_dir, squared, session>>

SquareNext == largest_square

SpecSquare == SquareInit /\ [][SquareNext]_vars

SpecPaths == Init /\ [][PathsNext]_vars
\* ================================================================ claims
Positions(s) == 0..(Len(s.cards) - 1)

CheckOk == resp.op = "check_match" /\ resp.status = "ok"

\* C1: the game_over flag of a successful check_match is true iff the matched
\* list then covers the whole board (|matched| = len(cards)), and the number
\* of matched positions is even in every reachable state.
C1_GameOverIffAllMatched ==
    /\ Len(session.matched) % 2 = 0
    /\ CheckOk => (resp.game_over <=> Len(session.matched) = Len(session.cards))

\* C2: matched holds only positions of confirmed pairs: each is a position of
\* the board, none is recorded twice, and each has a different matched
\* partner position holding the same value.
C2_MatchedOnlyConfirmedPairs ==
    /\ \A i \in 1..Len(session.matched) : session.matched[i] \in Positions(session)
    /\ \A i, j \in 1..Len(session.matched) :
          session.matched[i] = session.matched[j] => i = j
    /\ \A p \in Range(session.matched) :
          \E q \in Range(session.matched) :
             q # p /\ session.cards[q + 1] = session.cards[p + 1]

\* C3: a successful check_match leaves current_player unchanged on equal
\* values, and on different values toggles it and adds nothing to matched;
\* current_player is always 1 or 2.
C3_TurnRule ==
    /\ session.current_player \in {1, 2}
    /\ \A c1, c2 \in CardInputs :
          ~ENABLED (/\ check_match(c1, c2)
                    /\ resp'.status = "ok"
                    /\ ~(IF PyIndex(session.cards, c1) = PyIndex(session.cards, c2)
                         THEN session'.current_player = session.current_player
                         ELSE /\ session'.current_player = 3 - session.current_player
                              /\ session'.matched = session.matched))

C3_Witness ==
    /\ CheckOk /\ resp.is_match
    /\ session.current_player = 2
    /\ session.player2_matches # <<>>

\* C4: twice the number of credited pairs equals the number of matched
\* positions, in every reachable state.
C4_ScoresCountMatched ==
    2 * (Len(session.player1_matches) + Len(session.player2_matches))
        = Len(session.matched)

\* C5: a dealt board has 2k cards, k = len(selected_images), holding every
\* value of [0, k) exactly twice and nothing else; cards changes only in a
\* deal (init, board fetch, the crop that drains the queue) or when the
\* session is discarded.
C5_ValidDeal ==
    /\ [](session.cards # <<>> =>
            LET k == Len(session.all_game_images)
            IN  /\ Len(session.cards) = 2 * k
                /\ \A i \in 1..Len(session.cards) : session.cards[i] \in 0..(k - 1)
                /\ \A v \in 0..(k - 1) :
                      Cardinality({i \in 1..Len(session.cards) : session.cards[i] = v}) = 2)
    /\ [][session'.cards # session.cards =>
            \/ resp'.op \in {"init", "get_board", "reset"}
            \/ resp'.op = "save_crop" /\ resp'.status = "ok"]_vars

C5_Witness ==
    /\ resp.op = "save_crop" /\ resp.status = "ok"
    /\ Len(session.cards) = 2 * TOTAL_PAIRS

\* C6: the board is dealt only when no crop is pending.
C6_NoDealWhilePending ==
    session.cards # <<>> => session.pending_crops = <<>>

\* C7: on a live session, init, board fetch, check_match and the page load
\* leave selected_images and pending_crops as they are; selected_images
\* changes only by reset or by the first request after it.
C7_NoResample ==
    [][/\ (session.present /\ resp'.op \in {"init", "get_board", "check_match", "index"}) =>
            /\ session'.all_game_images = session.all_game_images
            /\ session'.pending_crops = session.pending_crops
       /\ session'.all_game_images # session.all_game_images =>
            (resp'.op = "reset" \/ ~session.present)]_vars

C7_Witness ==
    /\ resp.op = "init" /\ ~resp.sampled
    /\ resp.status = "pending_crops"
    /\ session.pending_crops # <<>>

ErrorValues ==
    {"Missing data", "Image not found", "Crop failed", "Not pending"}

\* C8: a crop submitted for a filename that is not pending fails with an
\* error value, never with an escaping exception.
C8_NotPendingIsErrorValue ==
    [][\A f \in FilenameInputs, b \in CropBoxInputs :
         (save_crop(f, b) /\ (~session.present \/ f \notin Range(session.pending_crops)))
            => resp'.status \in ErrorValues]_vars

Failures ==
    ErrorValues \cup {"Invalid card index", "Card already matched", "exception"}

\* C9: a failing check_match or resolve_crop changes no session field.
C9_FailureLeavesSession ==
    [][(resp'.op \in {"check_match", "save_crop"} /\ resp'.status \in Failures)
          => session' = session]_vars

C9_Witness ==
    /\ resp.op = "check_match" /\ resp.status = "Card already matched"
    /\ session.matched # <<>>

\* C10: check_match fails InvalidIndex exactly when a position is negative or
\* not below len(cards); otherwise AlreadyMatched exactly when a position is
\* in matched; otherwise it succeeds with the match flag (a matching check
\* is explored only while fewer than MaxMatches pairs are credited).
C10_CheckErrors ==
    \A c1, c2 \in CardInputs :
       LET n == Len(session.cards)
           outside == c1 < 0 \/ c2 < 0 \/ c1 >= n \/ c2 >= n
           taken == \E i \in 1..Len(session.matched) :
                       session.matched[i] = c1 \/ session.matched[i] = c2
           Answers(status) == ENABLED (check_match(c1, c2) /\ resp'.status = status)
       IN  /\ Answers("Invalid card index") <=> outside
           /\ Answers("Card already matched") <=> (~outside /\ taken)
           /\ Answers("ok") => (~outside /\ ~taken)
           /\ (/\ ~outside /\ ~taken
               /\ \/ session.cards[c1 + 1] # session.cards[c2 + 1]
                  \/ Len(session.player1_matches) + Len(session.player2_matches)
                        < MaxMatches)
                 => Answers("ok")
           /\ ~ENABLED (/\ check_match(c1, c2)
                        /\ resp'.status = "ok"
                        /\ resp'.is_match # (session.cards[c1 + 1] = session.cards[c2 + 1]))

C10_Witness ==
    /\ resp.op = "check_match" /\ resp.status = "Invalid card index"
    /\ session.cards # <<>>
C12_LastCropDealsCleanBoard ==
    (resp.op = "save_crop" /\ resp.status = "ok") =>
        /\ session.pending_crops = <<>>
        /\ session.cards \in Shuffles(Len(session.all_game_images))
        /\ Len(session.cards) = 2 * Len(session.all_game_images)
        /\ session.matched = <<>>
        /\ session.player1_matches = <<>>
        /\ session.player2_matches = <<>>

\* C13 as stated: the image1 and image2 of a successful check_match are
\* display filenames, the derivative's name when the image has one and the
\* base filename only otherwise.
C13_CheckReturnsDisplayNames ==
    \A card1, card2 \in CardInputs :
       ~ENABLED (/\ check_match(card1, card2)
                 /\ resp'.status = "ok"
                 /\ ~(/\ resp'.image1 = get_display_filename(squared,
                            session.all_game_images[PyIndex(session.cards, card1) + 1])
                      /\ resp'.image2 = get_display_filename(squared,
                            session.all_game_images[PyIndex(session.cards, card2) + 1])))

\* C13, amended: the image1 and image2 of a successful check_match are the
\* base filenames of the two cards' images, all_game_images[cards[card]],
\* whether or not the image has a derivative.
C13_CheckReturnsBaseNames ==
    \A card1, card2 \in CardInputs :
       ~ENABLED (/\ check_match(card1, card2)
                 /\ resp'.status = "ok"
                 /\ ~(/\ resp'.image1 =
                            session.all_game_images[PyIndex(session.cards, card1) + 1]
                      /\ resp'.image2 =
                            session.all_game_images[PyIndex(session.cards, card2) + 1]))

\* A successful check_match has named an image that has a derivative.
C13_Witness ==
    /\ CheckOk
    /\ resp.image1 \in Files
    /\ has_cropped_version(squared, resp.image1)

\* C14: reset discards the whole session from any state: no session key
\* remains, and the next init behaves as on a brand-new session: it draws a
\* fresh sample (any selection of the catalog can come out), recomputes
\* pending_crops against the cache, and leaves current_player 1 and matched
\* and both score lists empty.
C14_ResetDiscardsSession ==
    resp.op = "reset" =>
        /\ session = EmptySession
        /\ \A selected_base \in get_k_random_images(TOTAL_PAIRS) :
              ENABLED (init /\ session'.all_game_images = selected_base)
        /\ ~ENABLED (/\ init
                     /\ ~(/\ resp'.sampled
                          /\ session'.present
                          /\ session'.all_game_images \in
                                get_k_random_images(TOTAL_PAIRS)
                          /\ session'.pending_crops =
                                SelectSeq(session'.all_game_images,
                                          LAMBDA f :
                                             /\ squared[f] = NoFile
                                             /\ ~is_square_image(f))
                          /\ session'.current_player = 1
                          /\ session'.matched = <<>>
                          /\ session'.player1_matches = <<>>
                          /\ session'.player2_matches = <<>>))

\* A reset has just been answered while the cache holds a derivative that an
\* earlier session made.
C14_Witness ==
    /\ resp.op = "reset"
    /\ ~session.present
    /\ \E f \in Files : squared[f] # NoFile

\* C15: init answers pending_crops, with pending_image the first entry of
\* pending_crops and total_pending its length, exactly when pending_crops is
\* not empty; otherwise it starts a round: cards is a valid deal, matched is
\* empty, current_player is 1, both score lists are empty, and the answer is
\* ok with total_pairs the number of selected images.
C15_InitAnswer ==
    resp.op = "init" =>
        /\ (resp.status = "pending_crops") = (session.pending_crops # <<>>)
        /\ session.pending_crops # <<>> =>
              /\ resp.next_image = session.pending_crops[1]
              /\ resp.total = Len(session.pending_crops)
        /\ session.pending_crops = <<>> =>
              /\ resp.status = "ok"
              /\ session.cards \in Shuffles(Len(session.all_game_images))
              /\ session.matched = <<>>
              /\ session.current_player = 1
              /\ session.player1_matches = <<>>
              /\ session.player2_matches = <<>>
              /\ resp.total = Len(session.all_game_images)

\* init has restarted the round of a live session on a full board.
C15_Witness ==
    /\ resp.op = "init"
    /\ resp.status = "ok"
    /\ ~resp.sampled
    /\ Len(session.cards) = 2 * TOTAL_PAIRS

\* C16: with n < k images in the catalog init selects all n without error and
\* a dealt board has 2n cards, each value of 0..n-1 exactly twice; with
\* n >= k the selection has exactly k distinct images.
C16_SelectionSize ==
    LET n == Cardinality(img_dir)
        k == TOTAL_PAIRS
        images == session.all_game_images
    IN  /\ ENABLED init
        /\ resp.op = "init" => resp.status \in {"ok", "pending_crops"}
        /\ session.present =>
              /\ Range(images) \subseteq img_dir
              /\ Cardinality(Range(images)) = Len(images)
              /\ n < k => /\ Len(images) = n
                          /\ session.cards # <<>> =>
                                /\ Len(session.cards) = 2 * n
                                /\ \A v \in 0..(n - 1) :
                                      Cardinality({i \in 1..(2 * n) :
                                                     session.cards[i] = v}) = 2
              /\ n >= k => Len(images) = k

\* init has dealt the board of a catalog that holds fewer images than pairs.
C16_Witness ==
    /\ Cardinality(img_dir) < TOTAL_PAIRS
    /\ resp.op = "init"
    /\ resp.status = "ok"
    /\ session.cards # <<>>
    /\ Len(session.cards) = 2 * Cardinality(img_dir)

\* The answers that report a missing file (HTTP 404).
NotFoundErrors == {"Image not found", "Invalid path"}

\* C17: each image-facing request (dimensions, crop tool, crop submission,
\* image retrieval) answers with a not-found error for every filename whose
\* resolved parent directory is not the image root, and no file outside the
\* image root is ever read or sent.
C17_OutsideRootIsNotFound ==
    /\ \A p \in PathInputs :
          p.dir # ImgRoot =>
             /\ ~ENABLED (crop_tool(p) /\ resp'.status \notin NotFoundErrors)
             /\ ~ENABLED (/\ get_image_dimensions_api(p)
                          /\ resp'.status \notin NotFoundErrors)
             /\ \A crop_box \in CropBoxInputs \ {NoBox} :
                   ~ENABLED (/\ save_crop_path(p, crop_box)
                             /\ resp'.status \notin NotFoundErrors)
             /\ ~ENABLED (serve_image(p) /\ resp'.status \notin NotFoundErrors)
    /\ resp.served # None => resp.served.dir \in {ImgRoot, SquaredDir}

\* C18: once a derivative exists, no later request of any session rewrites
\* it: its content stays what the first write produced.
C18_DerivativeWrittenOnce ==
    [][\A f \in Files : squared[f] # NoFile => squared'[f] = squared[f]]_vars

\* C19 as stated: a board fetch or a check_match made with no session state
\* does not answer with an error: the session is initialised and the request
\* is served.
C19_NoSessionIsServed ==
    ~session.present =>
        /\ ~ENABLED (get_board /\ ~(resp'.status = "ok" /\ session'.present))
        /\ \A card1, card2 \in CardInputs :
              ~ENABLED (/\ check_match(card1, card2)
                        /\ ~(resp'.status = "ok" /\ session'.present))

\* C19, amended: with no session state a board fetch initialises the session
\* (a fresh selection) and, unless the catalog is empty, deals and answers
\* the board; with an empty catalog it answers 'No images in session'.  A
\* check_match with no session state answers 'Invalid card index' and
\* initialises nothing.
C19_BoardInitialisesCheckDoesNot ==
    ~session.present =>
        /\ ENABLED get_board
        /\ ~ENABLED (/\ get_board
                     /\ ~(/\ resp'.sampled
                          /\ session'.present
                          /\ session'.all_game_images \in
                                get_k_random_images(TOTAL_PAIRS)
                          /\ img_dir # {} =>
                                /\ resp'.status = "ok"
                                /\ session'.cards \in
                                      Shuffles(Len(session'.all_game_images))
                          /\ img_dir = {} =>
                                resp'.status = "No images in session"))
        /\ \A card1, card2 \in CardInputs :
              ~ENABLED (/\ check_match(card1, card2)
                        /\ ~(/\ resp'.status = "Invalid card index"
                             /\ session' = session))

\* A check_match has just been answered while there is no session state.
C19_Witness ==
    /\ resp.op = "check_match"
    /\ ~session.present

\* C20: for positive width w and height h the largest centred square has
\* size = min(w, h), x = floor((w - size) / 2) and y = floor((h - size) / 2),
\* so that size <= min(w, h), x >= 0, y >= 0, x + size <= w and
\* y + size <= h.
C20_LargestCentredSquare ==
    resp.op = "largest_square" =>
        LET w == resp.square.width
            h == resp.square.height
            x == resp.square.x
            y == resp.square.y
            size == resp.square.size
        IN  /\ size \in {w, h} /\ size <= w /\ size <= h
            /\ 2 * x <= w - size /\ w - size < 2 * x + 2
            /\ 2 * y <= h - size /\ h - size < 2 * y + 2
            /\ x >= 0 /\ y >= 0
            /\ x + size <= w /\ y + size <= h

\* The square of a picture wider than high has been computed: it is not at
\* the left edge.
C20_Witness ==
    /\ resp.op = "largest_square"
    /\ resp.square.width > resp.square.height + 1
    /\ resp.square.x > 0

\* C21: right after init on a fresh session, pending_crops is exactly the
\* selected images, in selection order, that had no derivative and are not
\* square (an image whose dimensions cannot be read is among them),
\* pending_crops holds only selected images, and every selected image that
\* is not pending has a derivative.
C21_PendingAfterFreshInit ==
    ~session.present =>
        ~ENABLED (/\ init
                  /\ ~(/\ session'.pending_crops =
                             SelectSeq(session'.all_game_images,
                                       LAMBDA f : /\ squared[f] = NoFile
                                                  /\ ~is_square_image(f))
                       /\ Range(session'.pending_crops) \subseteq
                             Range(session'.all_game_images)
                       /\ \A f \in Range(session'.all_game_images) :
                             f \notin Range(session'.pending_crops) =>
                                squared'[f] # NoFile))

\* ---- SpecLive: a caller who keeps cropping and keeps matching ----

\* A session is started, by the page or by init.
StartSession ==
    /\ ~session.present
    /\ (index \/ init)

\* The caller submits a well-formed crop box for the head of the queue.
CropHead ==
    /\ session.pending_crops # <<>>
    /\ \E crop_box \in CropBoxes : save_crop(session.pending_crops[1], crop_box)

\* The pairs of distinct unmatched positions that hold equal values.
MatchingPairs ==
    {pair \in Positions(session) \X Positions(session) :
        /\ pair[1] # pair[2]
        /\ pair[1] \notin Range(session.matched)
        /\ pair[2] \notin Range(session.matched)
        /\ PyIndex(session.cards, pair[1]) = PyIndex(session.cards, pair[2])}

\* A player checks such a pair.
CheckPair == \E pair \in MatchingPairs : check_match(pair[1], pair[2])

LiveNext ==
    \/ StartSession
    \/ CropHead
    \/ CheckPair

\* The server answers every request, and the caller does not give up: a crop
\* or a check that stays possible is made.
SpecLive ==
    /\ FilesInit
    /\ [][LiveNext]_vars
    /\ WF_vars(StartSession)
    /\ WF_vars(CropHead)
    /\ WF_vars(CheckPair)

\* C22: from any state with pending crops the queue eventually drains and the
\* board is dealt, when the caller keeps submitting a crop box for the head
\* of the queue; and from any dealt state a check_match eventually answers
\* game_over = true, when the players keep checking pairs of distinct
\* unmatched positions that hold equal values.
C22_CropPhaseAndPlayEnd ==
    /\ (session.pending_crops # <<>>) ~>
          (session.pending_crops = <<>> /\ session.cards # <<>>)
    /\ (session.cards # <<>> /\ MatchingPairs # {}) ~>
          (resp.op = "check_match" /\ resp.game_over)

\* C23: within one deal each card value is credited at most once: after any
\* sequence of check_match calls no value occurs twice in player1_matches
\* followed by player2_matches, so the credited pairs never number more than
\* the pairs on the board.
C23_ValueCreditedOnce ==
    resp.op = "check_match" =>
        LET credited == session.player1_matches \o session.player2_matches
        IN  /\ Cardinality(Range(credited)) = Len(credited)
            /\ Len(credited) <= TOTAL_PAIRS

====
